---- MODULE Spec2Model ----
(***************************************************************************)
(* A model of hepscore.py: the HEPscore benchmark orchestrator.            *)
(*                                                                         *)
(* Numbers.  Python floats are modelled as exact fixed-point integers in   *)
(* units of 1/(2*10^4): the value 1.0 is One = 20000 units.  A value that  *)
(* was rounded to 4 decimals is an even number of units; the mean of two   *)
(* such values (median_tuple's (val1 + val2) / 2.0) is then exact.         *)
(* Products of scores exceed the range of machine integers, so the         *)
(* geometric mean is computed on little-endian base-10^4 limb sequences.   *)
(***************************************************************************)
EXTENDS Integers, Sequences, FiniteSets, TLC

VARIABLES
    arg,          \* function-level checks: the argument of the call
    ret,          \* function-level checks: the value returned
    settings,     \* confobj['settings'] and the shape of the configuration
    confobj,      \* confobj['score'], ['status'], ['error'], ['score_per_core']
    wl_scores,    \* confobj['wl-scores']
    bench_conf,   \* confobj['benchmarks'][b] of the workload b being run
    fs,           \* summary artifacts in the run directories of workload b
    results,      \* HEPscore.results
    pc,           \* position of the control thread
    wl,           \* run(): the workload the for loop is at (1-based)
    rep,          \* _run_benchmark(): the repetition index i
    res,          \* run(): res
    early,        \* _run_benchmark() is on a path that ends in return(-1)
    reduced,      \* _proc_results(): the dict results of the latest call
    final_run,    \* _proc_results(): final_run of the latest call
    final_result, \* _proc_results(): the value the latest call returned
    trace,        \* history: the repetitions <<workload, i>> begun, in order
    no_score,     \* history: the workloads a repetition of which yielded
                  \* no parsable score
    last_call,    \* the method of HEPscore that returned last
    cleanup,      \* _cleanup_fs(): its position, result and file operations
    running,      \* the container processes <<workload, i>> spawned and not
                  \* yet terminated
    cmdf,         \* _run_benchmark(): the process of the current iteration
    procs,        \* history: the calls of _proc_results that returned, each
                  \* <<workload, number of repetitions begun before it>>
    docker_rm,    \* calls of _docker_rm during the current _run_benchmark()
    exit_status   \* the status sys.exit() ended the process with

vars == <<arg, ret, cleanup, settings, confobj, wl_scores, bench_conf, fs, results,
          pc, wl, rep, res, early, reduced, final_run, final_result, trace,
          no_score, last_call, running, cmdf, procs, docker_rm, exit_status>>

\* the variables of the function-level checks
harness_vars == <<arg, ret, cleanup>>

suite_vars == <<settings, confobj, wl_scores, bench_conf, fs, results,
                pc, wl, rep, res, early, reduced, final_run, final_result,
                trace, no_score, last_call, running, cmdf, procs, docker_rm,
                exit_status>>

\* the processes, the calls counted and the exit status
exec_vars == <<running, cmdf, procs, docker_rm, exit_status>>

----------------------------------------------------------------------------
(* Bounds of the model *)

\* longest score mapping handed to median_tuple in the function-level check
MaxVals == 4

\* most sub-benchmarks of ref_scores in the function-level check of the
\* reduced score
MaxSub == 2

\* most workloads of a suite configuration
MaxWl == 2

\* most repetitions (settings.repetitions) of a suite configuration
MaxReps == 2

----------------------------------------------------------------------------
(* Fixed-point numbers *)

\* round(x, 4): the number of decimals kept at hepscore.py:142, 155, 511
Decimals == 4

\* the float 1.0 in model units (two units per 10^-4)
One == 2 * (10 ^ Decimals)

\* the reduced scores the function-level checks draw from: 0.5, 1.0, 3.0, 4.0
ScoreSet == {One \div 2, One, 3 * One, 4 * One}

\* the invalid marker: return(-1), confobj['score'] = -1
Invalid == -1

\* a key of confobj that has not been set
Unset == Invalid - 1

----------------------------------------------------------------------------
(* Natural numbers of any size: little-endian sequences of base-10^4 limbs *)
(* (the empty sequence is 0).  They carry the products and powers that the *)
(* geometric mean compares.                                                *)

Base == 10 ^ 4

RECURSIVE BigOfInt(_)
BigOfInt(n) == IF n = 0 THEN << >> ELSE <<n % Base>> \o BigOfInt(n \div Base)

\* drop the zero limbs at the most significant end
RECURSIVE BigNorm(_)
BigNorm(a) ==
    IF a = << >> THEN << >>
    ELSE IF a[Len(a)] = 0 THEN BigNorm(SubSeq(a, 1, Len(a) - 1))
         ELSE a

RECURSIVE BigAdd(_, _, _)
BigAdd(a, b, carry) ==
    IF a = << >> /\ b = << >>
    THEN (IF carry = 0 THEN << >> ELSE <<carry>>)
    ELSE LET x == IF a = << >> THEN 0 ELSE Head(a)
             y == IF b = << >> THEN 0 ELSE Head(b)
             t == x + y + carry
         IN  <<t % Base>> \o
             BigAdd(IF a = << >> THEN << >> ELSE Tail(a),
                    IF b = << >> THEN << >> ELSE Tail(b), t \div Base)

\* a times the single limb d, plus carry
RECURSIVE BigMulLimb(_, _, _)
BigMulLimb(a, d, carry) ==
    IF a = << >> THEN (IF carry = 0 THEN << >> ELSE <<carry>>)
    ELSE LET t == Head(a) * d + carry
         IN  <<t % Base>> \o BigMulLimb(Tail(a), d, t \div Base)

RECURSIVE BigMul(_, _)
BigMul(a, b) ==
    IF b = << >> THEN << >>
    ELSE BigNorm(BigAdd(BigMulLimb(a, Head(b), 0),
                        <<0>> \o BigMul(a, Tail(b)), 0))

RECURSIVE BigPow(_, _)
BigPow(a, n) == IF n = 0 THEN <<1>> ELSE BigMul(a, BigPow(a, n - 1))

\* a < b, for normalised a and b: compare from the most significant limb
RECURSIVE BigLess(_, _)
BigLess(a, b) ==
    IF Len(a) # Len(b) THEN Len(a) < Len(b)
    ELSE IF a = << >> THEN FALSE
         ELSE IF a[Len(a)] # b[Len(b)] THEN a[Len(a)] < b[Len(b)]
              ELSE BigLess(SubSeq(a, 1, Len(a) - 1), SubSeq(b, 1, Len(b) - 1))

\* the product of a sequence of non-negative integers
RECURSIVE BigProduct(_)
BigProduct(xs) ==
    IF xs = << >> THEN <<1>> ELSE BigMul(BigOfInt(Head(xs)), BigProduct(Tail(xs)))

RECURSIVE MaxOfSeq(_)
MaxOfSeq(xs) ==
    IF xs = << >> THEN 0
    ELSE LET t == MaxOfSeq(Tail(xs)) IN IF Head(xs) > t THEN Head(xs) ELSE t

RECURSIVE MinOfSeq(_)
MinOfSeq(xs) ==
    IF Len(xs) = 1 THEN Head(xs)
    ELSE LET t == MinOfSeq(Tail(xs)) IN IF Head(xs) < t THEN Head(xs) ELSE t

----------------------------------------------------------------------------
(* scipy.stats.gmean followed by round(., 4)                               *)
(* gmean(xs) = exp(mean(log(xs))) is the n-th root of the product of xs;   *)
(* it is irrational in general, so the model computes the rounded result   *)
(* directly: the number r of 10^-4 steps nearest to root * num / den,      *)
(* where num/den is the factor applied between gmean and round.  r is the  *)
(* least r with  product * num^n < ((2r + 1) * den)^n  (all in units); a   *)
(* root exactly half way between two steps goes to the upper one.          *)
(* A product of 0 gives 0 (log 0 = -inf, exp(-inf) = 0.0).                 *)

\* product * num^n for the sequence xs of length n
ScaledProduct(xs, num) == BigMul(BigProduct(xs), BigPow(BigOfInt(num), Len(xs)))

\* least r in lo..hi with  p < ((2r + 1) * den)^n, by bisection; hi has it
RECURSIVE LeastStep(_, _, _, _, _)
LeastStep(p, n, den, lo, hi) ==
    IF lo = hi THEN lo
    ELSE LET mid == (lo + hi) \div 2
         IN  IF BigLess(p, BigPow(BigOfInt((2 * mid + 1) * den), n))
             THEN LeastStep(p, n, den, lo, mid)
             ELSE LeastStep(p, n, den, mid + 1, hi)

\* the root lies between the least and the greatest element, which brackets r
NearestStep(xs, num, den) ==
    LeastStep(ScaledProduct(xs, num), Len(xs), den,
              (MinOfSeq(xs) * num) \div (2 * den),
              (MaxOfSeq(xs) * num) \div (2 * den) + 1)

\* rounding toward zero instead of to the nearest step
TruncatedGMean(xs, num, den) ==
    LET r == NearestStep(xs, num, den)
    IN  IF r > 0 /\ BigLess(ScaledProduct(xs, num),
                            BigPow(BigOfInt(2 * r * den), Len(xs)))
        THEN 2 * (r - 1) ELSE 2 * r

\* round(gmean(xs) * num / den, 4) in units, for non-empty xs of values >= 0
RoundedGMean(xs, num, den) == 2 * NearestStep(xs, num, den)

----------------------------------------------------------------------------
(* median_tuple(vals)                                                      *)
(* vals is a dict; it is modelled as the sequence of its (key, value)      *)
(* items in iteration order, each item a pair <<run index, score>>.        *)

\* an ordering that also moves an item in front of the items of equal score
ComesBeforeOrTies(x, y) == x[2] <= y[2]

\* item x is moved in front of item y only when its key, the score, is smaller
ComesBefore(x, y) == x[2] < y[2]

\* insert item x behind every item of the sorted sequence s whose score is
\* not greater: sorted() is stable, equal keys keep their input order
RECURSIVE InsertStable(_, _)
InsertStable(s, x) ==
    IF s = << >> THEN <<x>>
    ELSE IF ComesBefore(x, Head(s)) THEN <<x>> \o s
         ELSE <<Head(s)>> \o InsertStable(Tail(s), x)

\* sorted(vals.items(), key=operator.itemgetter(1))
RECURSIVE SortedItems(_)
SortedItems(items) ==
    IF items = << >> THEN << >>
    ELSE InsertStable(SortedItems(SubSeq(items, 1, Len(items) - 1)),
                      items[Len(items)])

\* a middle index that is one too small once there are three or more items
MedIndLow(n) == IF n > 2 THEN (n \div 2) - 1 ELSE n \div 2

\* med_ind = int(len(sorted_vals) / 2); sequences are 1-based, so the Python
\* position p is the element p + 1
MedInd(n) == n \div 2

\* the lower middle value instead of the mean
MeanOfTwoFirst(val1, val2) == val1

\* the value returned for an even count, (val1 + val2) / 2.0
MeanOfTwo(val1, val2) == (val1 + val2) \div 2

\* The result is the record [val, runs]: runs is <<i>> where Python returns
\* the bare index i (odd count) and <<i, j>> where it returns the tuple (i, j).
median_tuple(vals) ==
    LET sorted_vals == SortedItems(vals)
        med_ind == MedInd(Len(sorted_vals))
    IN  IF Len(sorted_vals) % 2 = 1
        THEN [val  |-> sorted_vals[med_ind + 1][2],
              runs |-> <<sorted_vals[med_ind + 1][1]>>]
        ELSE [val  |-> MeanOfTwo(sorted_vals[med_ind][2],
                                 sorted_vals[med_ind + 1][2]),
              runs |-> <<sorted_vals[med_ind][1], sorted_vals[med_ind + 1][1]>>]

NoRet == [val |-> -1, runs |-> << >>]

----------------------------------------------------------------------------
(* Strings and paths: a string is the sequence of its characters           *)

StartsWith(s, p) == Len(s) >= Len(p) /\ SubSeq(s, 1, Len(p)) = p

\* s.find(p): the first 0-based position of p in s, or -1
Find(s, p) ==
    LET hits == {i \in 0..(Len(s) - Len(p)) : SubSeq(s, i + 1, i + Len(p)) = p}
    IN  IF hits = {} THEN -1 ELSE CHOOSE i \in hits : \A j \in hits : i <= j

\* s.split('/')
RECURSIVE SplitSlash(_)
SplitSlash(s) ==
    LET at == Find(s, <<"/">>)
    IN  IF at = -1 THEN <<s>>
        ELSE <<SubSeq(s, 1, at)>> \o SplitSlash(SubSeq(s, at + 2, Len(s)))

\* '/'.join(comps)
RECURSIVE JoinSlash(_)
JoinSlash(comps) ==
    IF comps = << >> THEN << >>
    ELSE IF Len(comps) = 1 THEN comps[1]
         ELSE comps[1] \o <<"/">> \o JoinSlash(Tail(comps))

\* the loop of posixpath.normpath over the components: '' and '.' are
\* skipped, '..' removes the component before it (and is dropped at the root)
RECURSIVE NormComps(_, _, _)
NormComps(comps, new_comps, initial_slashes) ==
    IF comps = << >> THEN new_comps
    ELSE LET comp == Head(comps)
             up == <<".", ".">>
         IN  IF comp = << >> \/ comp = <<".">>
             THEN NormComps(Tail(comps), new_comps, initial_slashes)
             ELSE IF \/ comp # up
                     \/ (initial_slashes = 0 /\ new_comps = << >>)
                     \/ (new_comps # << >> /\ new_comps[Len(new_comps)] = up)
             THEN NormComps(Tail(comps), Append(new_comps, comp), initial_slashes)
             ELSE NormComps(Tail(comps),
                            IF new_comps = << >> THEN << >>
                            ELSE SubSeq(new_comps, 1, Len(new_comps) - 1),
                            initial_slashes)

\* posixpath.normpath keeps exactly two leading slashes as they are
InitialSlashes(path) ==
    IF ~StartsWith(path, <<"/">>) THEN 0
    ELSE IF StartsWith(path, <<"/", "/">>) /\ ~StartsWith(path, <<"/", "/", "/">>)
         THEN 2 ELSE 1

NormPath(path) ==
    LET n == InitialSlashes(path)
        body == JoinSlash(NormComps(SplitSlash(path), << >>, n))
        out == [k \in 1..n |-> "/"] \o body
    IN  IF out = << >> THEN <<".">> ELSE out

\* os.getcwd() of the modelled process: "/w"
Cwd == <<"/", "w">>

\* os.path.abspath(path)
AbsPath(path) ==
    IF StartsWith(path, <<"/">>) THEN NormPath(path)
    ELSE NormPath(Cwd \o <<"/">> \o path)

\* re.match('^run[0-9]*', name) matches every name that starts with "run"
MatchesRunDir(name) == StartsWith(name, <<"r", "u", "n">>)

\* re.match("^" + benchmark + ".*", name): benchmark is read as a regular
\* expression, in which "." stands for any character
RECURSIVE MatchesPrefix(_, _)
MatchesPrefix(benchmark, name) ==
    IF benchmark = << >> THEN TRUE
    ELSE IF name = << >> THEN FALSE
         ELSE /\ Head(benchmark) = "." \/ Head(benchmark) = Head(name)
              /\ MatchesPrefix(Tail(benchmark), Tail(name))

----------------------------------------------------------------------------
(* _cleanup_fs(benchmark)                                                  *)
(* The call c has the fields clean_files, cec, uid, resultsdir, benchmark  *)
(* and tree: the listing of the working path, a sequence of entries        *)
(* [name, link, entries], each entry of entries a record [name, link, dir].*)

CleanupIdle ==
    [pc |-> "idle", ret |-> FALSE, todo |-> << >>, tars |-> {}, removed |-> {}]

\* wp = self.resultsdir + "/" + benchmark
WorkPath(c) == c.resultsdir \o <<"/">> \o c.benchmark

\* self.cec == 'docker' and os.getuid() != 0
SkipsAsNonRoot(c) == c.cec = "docker" /\ c.uid # 0

\* benchmark == '' or benchmark.find('/') != -1 or
\* os.path.abspath(wp) == '/' or wp == '' or wp.find('..') != -1
InvalidPath(c) ==
    \/ c.benchmark = << >>
    \/ Find(c.benchmark, <<"/">>) # -1
    \/ AbsPath(WorkPath(c)) = <<"/">>
    \/ WorkPath(c) = << >>
    \/ Find(WorkPath(c), <<".", ".">>) # -1

\* the result directories the two nested loops reach, in listing order:
\* <<r, e>> is entry e of the run directory r
Candidates(c) ==
    LET ok(r, e) ==
            /\ MatchesRunDir(c.tree[r].name)
            /\ ~c.tree[r].link
            /\ MatchesPrefix(c.benchmark, c.tree[r].entries[e].name)
            /\ ~c.tree[r].entries[e].link
            /\ c.tree[r].entries[e].dir
        RECURSIVE Collect(_, _)
        Collect(r, e) ==
            IF r > Len(c.tree) THEN << >>
            ELSE IF e > Len(c.tree[r].entries) THEN Collect(r + 1, 1)
                 ELSE (IF ok(r, e) THEN <<<<r, e>>>> ELSE << >>)
                      \o Collect(r, e + 1)
    IN  Collect(1, 1)

\* resdir_path = os.path.join(os.path.join(wp, rundir), resdir)
ResDirPath(c, d) ==
    WorkPath(c) \o <<"/">> \o c.tree[d[1]].name \o <<"/">>
    \o c.tree[d[1]].entries[d[2]].name

\* os.path.abspath(resdir_path) != '/' and
\* resdir_path.find(self.resultsdir) == 0
MayRemove(c, d) ==
    /\ AbsPath(ResDirPath(c, d)) # <<"/">>
    /\ Find(ResDirPath(c, d), c.resultsdir) = 0

\* the method up to the first listing of a result directory
cleanup_enter ==
    /\ cleanup.pc = "idle"
    /\ cleanup' =
          IF ~arg.clean_files \/ SkipsAsNonRoot(arg) \/ InvalidPath(arg)
          THEN [cleanup EXCEPT !.pc = "returned", !.ret = FALSE]
          ELSE [cleanup EXCEPT !.pc = "loop", !.todo = Candidates(arg)]
    /\ UNCHANGED <<arg, ret, suite_vars>>

\* one result directory: tar it (tarfile.open, tar.add), then remove it;
\* tarred and removed tell whether the file operation succeeds or raises
cleanup_step(tarred, removed) ==
    /\ cleanup.pc = "loop"
    /\ cleanup.todo # << >>
    /\ LET d == Head(cleanup.todo)
       IN  cleanup' =
             IF ~tarred
             THEN [cleanup EXCEPT !.pc = "raised"]
             ELSE IF ~MayRemove(arg, d)
             THEN [cleanup EXCEPT !.pc = "returned", !.ret = FALSE,
                                  !.tars = @ \cup {d}]
             ELSE IF ~removed
             THEN [cleanup EXCEPT !.pc = "raised", !.tars = @ \cup {d}]
             ELSE [cleanup EXCEPT !.todo = Tail(@), !.tars = @ \cup {d},
                                  !.removed = @ \cup {d}]
    /\ UNCHANGED <<arg, ret, suite_vars>>

\* the loops are over: return True
cleanup_return ==
    /\ cleanup.pc = "loop"
    /\ cleanup.todo = << >>
    /\ cleanup' = [cleanup EXCEPT !.pc = "returned", !.ret = TRUE]
    /\ UNCHANGED <<arg, ret, suite_vars>>

----------------------------------------------------------------------------
(* The suite configuration and the summary artifacts                       *)

\* settings.scaling: absent, or the factor num/den
ScalingChoices ==
    {[present |-> FALSE, num |-> 1, den |-> 1],
     [present |-> TRUE, num |-> 3, den |-> 2]}

\* allow_fail is "absent", "false" or "true" in confobj['settings'];
\* top_allow_fail tells whether confobj itself has a key 'allow_fail'
\* (parse_conf keeps every top-level key of the configuration)
Configurations ==
    [nwl : 1..MaxWl, repetitions : 1..MaxReps,
     allow_fail : {"absent", "false", "true"}, top_allow_fail : BOOLEAN,
     scaling : ScalingChoices]

\* ref_scores of every workload of the modelled suite: two sub-benchmarks
SuiteRef == <<2, 5>>

\* the keys of a summary that _set_run_metadata reads, in the order it reads
\* them, and that _del_run_metadata pops
MetaKeys == <<"app", "copies", "threads_per_copy", "events_per_thread">>

AllMeta == {MetaKeys[k] : k \in 1..Len(MetaKeys)}

\* no <glob>_summary.json in the run directory
NoArtifact ==
    [present |-> FALSE, json |-> FALSE, raw |-> << >>, wl |-> << >>,
     meta |-> {}, app |-> 0]

\* a summary file that json.loads rejects
BadArtifact ==
    [present |-> TRUE, json |-> FALSE, raw |-> << >>, wl |-> << >>,
     meta |-> {}, app |-> 0]

\* a summary with jscore[key][sub] = raw[sub], jscore['wl-scores'][sub] =
\* w[sub], the metadata keys meta, and app as the value of each of them
ArtifactWith(raw, w, meta, app) ==
    [present |-> TRUE, json |-> TRUE, raw |-> raw, wl |-> w,
     meta |-> meta, app |-> app]

\* a summary with every metadata key
Artifact(raw, w) == ArtifactWith(raw, w, AllMeta, 1)

\* the summaries a run of the modelled suite writes: sub-scores equal to the
\* reference scores (reduced score 1.0) and three times as large (3.0)
GoodArtifacts ==
    {Artifact(<<2, 5>>, <<2 * One, 6 * One>>),
     Artifact(<<6, 15>>, <<4 * One, 10 * One>>)}

\* the exit status of a container killed for lack of memory
OomKilled == 137

\* what a spawned container can do: it exits with status rc having written
\* the artifact art (or none)
RepOutcomes ==
    [rc : {0}, art : GoodArtifacts \cup {BadArtifact, NoArtifact}]
    \cup [rc : {1}, art : {Artifact(<<2, 5>>, <<2 * One, 6 * One>>)}]
    \cup [rc : {OomKilled}, art : {NoArtifact}]

----------------------------------------------------------------------------
(* _proc_results(benchmark)                                                *)

\* the quotient without the rounding to 4 decimals (whole units only)
SubScoreUnrounded(raw, ref) == (raw * One) \div ref

\* sub_score = round(float(jscore[key][sub_bmk]) / ref_scores[sub_bmk], 4)
SubScore(raw, ref) == 2 * ((2 * raw * (10 ^ Decimals) + ref) \div (2 * ref))

\* the try block raises: json.loads fails, a sub-benchmark key is missing from
\* jscore[key], or the reference score is 0
ParseRaises(art, ref) ==
    \/ ~art.json
    \/ Len(art.raw) < Len(ref)
    \/ \E k \in 1..Len(ref) : ref[k] = 0

\* _set_run_metadata raises KeyError: a key it reads is not in jscore
MetadataRaises(art) == art.meta # AllMeta

\* the keys _set_run_metadata copied into bench_conf['run_info'] before it
\* returned or raised: those before the first key missing from jscore
RECURSIVE CopiedKeys(_, _)
CopiedKeys(meta, k) ==
    IF k > Len(MetaKeys) \/ MetaKeys[k] \notin meta THEN {}
    ELSE {MetaKeys[k]} \cup CopiedKeys(meta, k + 1)

\* bench_conf after _set_run_metadata(bench_conf, jscore, benchmark):
\* bench_conf['app'] = jscore['app'], bench_conf['run_info'] = {} and then
\* its three keys, up to the first KeyError
SetRunMetadata(st, art) ==
    IF "app" \notin art.meta THEN st
    ELSE [st EXCEPT !.app = art.app, !.run_info = CopiedKeys(art.meta, 2)]

\* the report kept as it was loaded
Unstripped(art) == art

\* jscore after _del_run_metadata(jscore): the four keys are popped from the
\* dictionary that bench_conf[runstr]['report'] refers to
DelRunMetadata(art) == [art EXCEPT !.meta = {}]

\* round(scipy.stats.gmean(sub_results), 4) over the sub-benchmarks of
\* ref_scores, in their order
ReducedScore(raw, ref) ==
    RoundedGMean([k \in 1..Len(ref) |-> SubScore(raw[k], ref[k])], 1, 1)

\* the characters of "run<i>/" as numbers, "/" sorting below every digit
PathKey(i) == (IF i < 10 THEN <<i>> ELSE <<i \div 10, i % 10>>) \o <<-1>>

\* string order of the glob paths of runs i and j
RECURSIVE SeqLess(_, _)
SeqLess(a, b) ==
    IF a = << >> THEN b # << >>
    ELSE IF b = << >> THEN FALSE
         ELSE IF Head(a) # Head(b) THEN Head(a) < Head(b)
              ELSE SeqLess(Tail(a), Tail(b))

PathLess(i, j) == SeqLess(PathKey(i), PathKey(j))

\* gpaths = sorted(glob.glob(...)): the run indices whose directory holds a
\* summary artifact, in the string order of their paths
RECURSIVE GlobPaths(_, _)
GlobPaths(files, todo) ==
    IF todo = {} THEN << >>
    ELSE LET i == CHOOSE x \in todo : \A y \in todo : x = y \/ PathLess(x, y)
         IN  <<i>> \o GlobPaths(files, todo \ {i})

\* the for loop over gpaths.  k is the 1-based position (i = k - 1), st the
\* loop state: fail, the dict results as items <<i, score>> in insertion
\* order, runs = bench_conf['run0'], bench_conf['run1'], ..., and the
\* workload's metadata app (the value) and run_info (the keys copied).
\* The report is stored as loaded; for i = 0 _set_run_metadata runs and may
\* raise, which skips _del_run_metadata and the sub-scores.
RECURSIVE ProcLoop(_, _, _, _, _)
ProcLoop(files, gpaths, ref, k, st) ==
    IF k > Len(gpaths) THEN st
    ELSE LET art == files[gpaths[k] + 1]
             meta_raised == art.json /\ k = 1 /\ MetadataRaises(art)
             raised == meta_raised \/ ParseRaises(art, ref)
             fail == st.fail \/ raised
             report == IF meta_raised THEN Unstripped(art)
                       ELSE DelRunMetadata(art)
             st1 == IF art.json /\ k = 1 THEN SetRunMetadata(st, art) ELSE st
             runs == IF art.json
                     THEN [st.runs EXCEPT ![k] = [@ EXCEPT !.report = report]]
                     ELSE st.runs
             res_items == IF fail THEN st.results
                          ELSE Append(st.results,
                                      <<k - 1, ReducedScore(art.raw, ref)>>)
         IN  ProcLoop(files, gpaths, ref, k + 1,
                      [st1 EXCEPT !.fail = fail, !.results = res_items,
                                  !.runs = runs])

NoWlScores == [set |-> FALSE, score |-> << >>, ref |-> << >>]

\* the selected run's value instead of the mean of the two
SumHalfFirst(a, b) == a

\* sum / 2 over the two runs of avg_names
SumHalf(a, b) == (a + b) \div 2

\* confobj['wl-scores'][benchmark]: for every sub-benchmark the wl-score of
\* the selected run, or the mean over the two selected runs, and its _ref
WlScoresOf(runs, n, sel, ref) ==
    [set |-> TRUE,
     score |-> [k \in 1..Len(ref) |->
                   IF n % 2 # 0
                   THEN runs[sel[1] + 1].report.wl[k]
                   ELSE SumHalf(runs[sel[1] + 1].report.wl[k],
                                runs[sel[2] + 1].report.wl[k])],
     ref |-> ref]

\* if fail: 'allow_fail' not in self.confobj.keys() or
\*          self.confobj['settings']['allow_fail'] is False
\* reading settings['allow_fail'] raises KeyError when the key is absent
FailReturns(conf) == ~conf.top_allow_fail \/ conf.allow_fail = "false"

FailRaises(conf) == conf.top_allow_fail /\ conf.allow_fail = "absent"

\* The outcome of the call: ret is the value returned (Invalid for -1),
\* raised tells that an exception left the method, bench and wls are
\* bench_conf and confobj['wl-scores'][benchmark] afterwards.
\* clean_files keeps its class default False, so _cleanup_fs returns at once.
proc_results(conf, bench, files, ref) ==
    LET runs == conf.repetitions
        gpaths == GlobPaths(files, {i \in 0..(Len(files) - 1) : files[i + 1].present})
        st == ProcLoop(files, gpaths, ref, 1,
                       [fail |-> FALSE, results |-> << >>, runs |-> bench.runs,
                        app |-> bench.app, run_info |-> bench.run_info])
        fail == st.fail \/ Len(st.results) # runs
        bench1 == [bench EXCEPT !.runs = st.runs, !.app = st.app,
                                !.run_info = st.run_info]
        med == median_tuple(st.results)
        out(r, x, b, w, f) ==
            [ret |-> r, raised |-> x, bench |-> b, wls |-> w,
             results |-> st.results, final_run |-> f]
    IN  IF Len(st.results) = 0
        THEN out(Invalid, FALSE, bench1, NoWlScores, << >>)
        ELSE IF fail /\ FailRaises(conf)
        THEN out(Invalid, TRUE, bench1, NoWlScores, << >>)
        ELSE IF fail /\ FailReturns(conf)
        THEN out(Invalid, FALSE, bench1, NoWlScores, << >>)
        ELSE out(med.val, FALSE, [bench1 EXCEPT !.has_ref = FALSE],
                 WlScoresOf(st.runs, Len(st.results), med.runs, ref), med.runs)

----------------------------------------------------------------------------
(* gen_score()                                                             *)

\* multiprocessing.cpu_count() of the modelled host
CpuCount == 4

\* scipy.stats.gmean is nan for an empty list (mean of nothing) and for a
\* list with a negative element (log of a negative number)
CompositionIsNaN(scores) ==
    scores = << >> \/ \E k \in 1..Len(scores) : scores[k] < 0

\* the factor is left out
UnscaledComposition(scores, scaling) == RoundedGMean(scores, 1, 1)

\* fres = round(method(self.results) * scaling, 4); without the key
\* 'scaling' no factor is applied
Composition(scores, scaling) ==
    IF scaling.present THEN RoundedGMean(scores, scaling.num, scaling.den)
    ELSE RoundedGMean(scores, 1, 1)

\* round(float(fres) / float(multiprocessing.cpu_count()), 3)
ScorePerCore(fres) ==
    LET step == One \div (10 ^ 3)
    IN  step * ((2 * fres + step * CpuCount) \div (2 * step * CpuCount))

gen_score ==
    /\ pc \in {"idle", "returned"}
    /\ confobj' =
          IF CompositionIsNaN(results)
          THEN [confobj EXCEPT !.score_per_core = Invalid, !.score = Invalid,
                               !.status = "failed"]
          ELSE LET fres == Composition(results, settings.scaling)
               IN  [confobj EXCEPT !.score = fres, !.status = "success",
                                   !.score_per_core = ScorePerCore(fres)]
    /\ last_call' = "gen_score"
    /\ UNCHANGED <<harness_vars, settings, wl_scores, bench_conf, fs, results, pc,
                   wl, rep, res, early, reduced, final_run, final_result,
                   trace, no_score, exec_vars>>

----------------------------------------------------------------------------
(* run() and _run_benchmark(), not in replay mode                          *)

\* bench_conf of a workload before its first repetition: no run, ref_scores
\* present, neither 'app' (0) nor 'run_info'
NoBench == [runs |-> << >>, has_ref |-> TRUE, app |-> 0, run_info |-> {}]

\* cmdf before subprocess.Popen returned, or when it raised
NoProcess == [spawned |-> FALSE, exited |-> FALSE, returncode |-> 0]

\* the state after parse_conf() in a fresh process
Loaded(conf) ==
    /\ settings = conf
    /\ confobj = [score |-> Unset, status |-> "unset", error |-> 0,
                  score_per_core |-> Unset]
    /\ wl_scores = [w \in 1..conf.nwl |-> NoWlScores]
    /\ bench_conf = NoBench
    /\ fs = << >>
    /\ results = << >>
    /\ pc = "idle"
    /\ wl = 0
    /\ rep = 0
    /\ res = 0
    /\ early = FALSE
    /\ reduced = << >>
    /\ final_run = << >>
    /\ final_result = Unset
    /\ trace = << >>
    /\ no_score = {}
    /\ last_call = "parse_conf"
    /\ running = {}
    /\ cmdf = NoProcess
    /\ procs = << >>
    /\ docker_rm = 0
    /\ exit_status = Unset

\* run() up to the for loop: confobj['wl-scores'] = {}, res = 0
run_begin ==
    /\ pc = "idle"
    /\ wl_scores' = [w \in 1..settings.nwl |-> NoWlScores]
    /\ res' = 0
    /\ wl' = 0
    /\ pc' = "bench"
    /\ UNCHANGED <<harness_vars, settings, confobj, bench_conf, fs, results, rep,
                   early, reduced, final_run, final_result, trace, no_score,
                   last_call, exec_vars>>

\* the for loop of run() takes the next benchmark and calls
\* self._run_benchmark(benchmark, mock), which runs up to its own for loop;
\* bench_conf, fs and the locals of _proc_results now belong to that workload
bench_begin ==
    /\ pc = "bench"
    /\ wl' = wl + 1
    /\ bench_conf' = NoBench
    /\ fs' = << >>
    /\ rep' = 0
    /\ early' = FALSE
    /\ reduced' = << >>
    /\ final_run' = << >>
    /\ final_result' = Unset
    /\ cmdf' = NoProcess
    /\ docker_rm' = 0
    /\ pc' = "rep"
    /\ UNCHANGED <<harness_vars, settings, confobj, wl_scores, results, res,
                   trace, no_score, last_call, running, procs, exit_status>>

\* the loop goes on whatever allow_fail is
StopOnNoRun(conf) == FALSE

\* 'allow_fail' not in settings.keys() or settings['allow_fail'] is False
StopOnFailingRun(conf) == conf.allow_fail \in {"absent", "false"}

\* the process is left running
StillRunning(procset, p) == procset

\* cmdf.wait(): the process has terminated
Terminated(procset, p) == procset \ {p}

\* if i == (runs - 1)
LastRepetition(i, runs) == i = runs - 1

\* one iteration of "for i in range(runs)" up to subprocess.Popen: the run
\* directory is made, bench_conf[runstr] = {} with start_at; Popen spawns
\* the container (ok) or raises, and then end_at and duration are set and
\* the method goes to self._proc_results(benchmark) and return(-1)
launch(ok) ==
    /\ pc = "rep"
    /\ rep < settings.repetitions
    /\ trace' = Append(trace, <<wl, rep>>)
    /\ IF ok
       THEN /\ bench_conf' = [bench_conf EXCEPT !.runs =
                                 Append(@, [report |-> NoArtifact, end_at |-> FALSE])]
            /\ running' = running \cup {<<wl, rep>>}
            /\ cmdf' = [spawned |-> TRUE, exited |-> FALSE, returncode |-> 0]
            /\ pc' = "wait"
            /\ UNCHANGED <<fs, no_score, early>>
       ELSE /\ bench_conf' = [bench_conf EXCEPT !.runs =
                                 Append(@, [report |-> NoArtifact, end_at |-> TRUE])]
            /\ fs' = Append(fs, NoArtifact)
            /\ no_score' = no_score \cup {wl}
            /\ early' = TRUE
            /\ cmdf' = NoProcess
            /\ pc' = "proc"
            /\ UNCHANGED running
    /\ UNCHANGED <<harness_vars, settings, confobj, wl_scores, results, wl, rep,
                   res, reduced, final_run, final_result, last_call, procs,
                   docker_rm, exit_status>>

\* the rest of the iteration: the output is read to its end, cmdf.wait(),
\* self._check_rc (logging only), the log snapshot, _docker_rm in the last
\* iteration, end_at and duration, and the test of cmdf.returncode
repetition(o) ==
    /\ pc = "wait"
    /\ fs' = Append(fs, o.art)
    /\ running' = Terminated(running, <<wl, rep>>)
    /\ cmdf' = [spawned |-> TRUE, exited |-> TRUE, returncode |-> o.rc]
    /\ docker_rm' = IF LastRepetition(rep, settings.repetitions)
                    THEN docker_rm + 1 ELSE docker_rm
    /\ bench_conf' = [bench_conf EXCEPT !.runs[rep + 1].end_at = TRUE]
    /\ no_score' = IF ParseRaises(o.art, SuiteRef) THEN no_score \cup {wl}
                   ELSE no_score
    /\ IF o.rc # 0 /\ StopOnFailingRun(settings)
       THEN early' = TRUE /\ pc' = "proc" /\ rep' = rep
       ELSE /\ early' = FALSE
            /\ rep' = rep + 1
            /\ pc' = IF rep + 1 = settings.repetitions THEN "proc" ELSE "rep"
    /\ UNCHANGED <<harness_vars, settings, confobj, wl_scores, results, wl, res,
                   reduced, final_run, final_result, trace, last_call, procs,
                   exit_status>>

\* the loop of run() goes on although the workload returned a negative result
BreakNever(r) == FALSE

\* if res < 0: break
BreakOn(r) == r < 0

\* self._proc_results(benchmark) at the end of _run_benchmark (after a launch
\* failure followed by _docker_rm in the last iteration), the return to
\* run(), and the rest of the body of run()'s for loop
proc_and_return ==
    /\ pc = "proc"
    /\ LET out == proc_results(settings, bench_conf, fs, SuiteRef)
           r == IF early THEN Invalid ELSE out.ret
       IN  /\ bench_conf' = out.bench
           /\ wl_scores' = IF out.wls.set THEN [wl_scores EXCEPT ![wl] = out.wls]
                           ELSE wl_scores
           /\ reduced' = out.results
           /\ final_run' = out.final_run
           /\ final_result' = out.ret
           /\ procs' = IF out.raised THEN procs
                       ELSE Append(procs, <<wl, Len(trace)>>)
           /\ docker_rm' = IF /\ ~out.raised
                              /\ early
                              /\ ~cmdf.spawned
                              /\ LastRepetition(rep, settings.repetitions)
                           THEN docker_rm + 1 ELSE docker_rm
           /\ IF out.raised
              THEN pc' = "raised" /\ UNCHANGED <<res, results>>
              ELSE /\ res' = r
                   /\ IF BreakOn(r)
                      THEN pc' = "done" /\ UNCHANGED results
                      ELSE /\ results' = Append(results, r)
                           /\ pc' = IF wl = settings.nwl THEN "done" ELSE "bench"
    /\ UNCHANGED <<harness_vars, settings, confobj, fs, wl, rep, early, trace,
                   no_score, last_call, running, cmdf, exit_status>>

\* run() after the for loop
run_end ==
    /\ pc = "done"
    /\ confobj' = IF res < 0
                  THEN [confobj EXCEPT !.error = wl, !.score = Invalid,
                                       !.status = "failed"]
                  ELSE confobj
    /\ pc' = "returned"
    /\ last_call' = "run"
    /\ UNCHANGED <<harness_vars, settings, wl_scores, bench_conf, fs, results, wl,
                   rep, res, early, reduced, final_run, final_result, trace,
                   no_score, exec_vars>>

\* len(self.results) == 0 or self.results[-1] < 0
ExitsAfterWriting(scores) ==
    Len(scores) = 0 \/ scores[Len(scores)] < 0

\* write_output(outtype, outfile) with outtype 'json' or 'yaml': the summary
\* is written (ok) or writing raises and sys.exit(2); then sys.exit(2) on
\* the test of self.results
write_output(ok) ==
    /\ pc \in {"idle", "returned"}
    /\ IF ~ok \/ ExitsAfterWriting(results)
       THEN exit_status' = 2 /\ pc' = "exited" /\ UNCHANGED last_call
       ELSE last_call' = "write_output" /\ UNCHANGED <<exit_status, pc>>
    /\ UNCHANGED <<harness_vars, settings, confobj, wl_scores, bench_conf, fs,
                   results, wl, rep, res, early, reduced, final_run,
                   final_result, trace, no_score, running, cmdf, procs,
                   docker_rm>>

Init ==
    /\ arg = << >>
    /\ ret = NoRet
    /\ cleanup = CleanupIdle
    /\ \E conf \in Configurations : Loaded(conf)

Next ==
    \/ run_begin
    \/ bench_begin
    \/ \E ok \in BOOLEAN : launch(ok)
    \/ \E o \in RepOutcomes : repetition(o)
    \/ proc_and_return
    \/ run_end
    \/ gen_score
    \/ \E ok \in BOOLEAN : write_output(ok)

Spec == Init /\ [][Next]_vars

----------------------------------------------------------------------------
(* Several suite runs in one process.  results is an attribute of the      *)
(* class HEPscore (results = []); the constructor refuses to set it and    *)
(* run() only appends to it, so every instance of the process appends to   *)
(* the same list.                                                          *)

\* most scores in HEPscore.results when a further instance starts its run
MaxScores == 2

\* HEPscore(...), parse_conf() and run() up to its for loop on a further
\* instance of the process, configured like the first: confobj and the
\* other attributes are its own, results is the list of the class
run_again ==
    /\ pc = "returned"
    /\ Len(results) < MaxScores
    /\ confobj' = [score |-> Unset, status |-> "unset", error |-> 0,
                   score_per_core |-> Unset]
    /\ wl_scores' = [w \in 1..settings.nwl |-> NoWlScores]
    /\ bench_conf' = NoBench
    /\ fs' = << >>
    /\ pc' = "bench"
    /\ wl' = 0
    /\ rep' = 0
    /\ res' = 0
    /\ early' = FALSE
    /\ reduced' = << >>
    /\ final_run' = << >>
    /\ final_result' = Unset
    /\ trace' = << >>
    /\ no_score' = {}
    /\ last_call' = "parse_conf"
    /\ running' = {}
    /\ cmdf' = NoProcess
    /\ procs' = << >>
    /\ docker_rm' = 0
    /\ UNCHANGED <<harness_vars, settings, results, exit_status>>

\* suites of one workload and one repetition
InitInstances ==
    /\ arg = << >>
    /\ ret = NoRet
    /\ cleanup = CleanupIdle
    /\ \E conf \in Configurations :
          conf.nwl = 1 /\ conf.repetitions = 1 /\ Loaded(conf)

NextInstances == Next \/ run_again

SpecInstances == InitInstances /\ [][NextInstances]_vars

----------------------------------------------------------------------------
(* Function-level check of median_tuple: the mapping is one that           *)
(* _proc_results builds, results[i] stored for i = 0, 1, ... in ascending  *)
(* order, so the items iterate in ascending run index.                     *)

ResultMappings ==
    UNION {{[i \in 1..n |-> <<i - 1, f[i]>>] : f \in [1..n -> ScoreSet]} :
           n \in 1..MaxVals}

\* the configuration the function-level checks leave the suite in
FunctionConf ==
    [nwl |-> 1, repetitions |-> 1, allow_fail |-> "absent",
     top_allow_fail |-> FALSE,
     scaling |-> [present |-> FALSE, num |-> 1, den |-> 1]]

InitMedian ==
    /\ arg \in ResultMappings
    /\ ret = NoRet
    /\ cleanup = CleanupIdle
    /\ Loaded(FunctionConf)

CallMedian ==
    /\ ret = NoRet
    /\ ret' = median_tuple(arg)
    /\ UNCHANGED <<arg, cleanup, suite_vars>>

NextMedian == CallMedian

SpecMedian == InitMedian /\ [][NextMedian]_vars

----------------------------------------------------------------------------
(* Function-level check of the reduced score: _proc_results on a workload  *)
(* of one repetition whose artifact holds the raw sub-scores arg.raw,      *)
(* against the reference scores arg.ref.                                   *)

RawSet == {0, 1, 2, 3, 7}

RefSet == {1, 2, 3}

ReduceInputs ==
    UNION {[raw : [1..n -> RawSet], ref : [1..n -> RefSet]] : n \in 1..MaxSub}

InitReduce ==
    /\ arg \in ReduceInputs
    /\ ret = NoRet
    /\ cleanup = CleanupIdle
    /\ Loaded(FunctionConf)

CallReduce ==
    /\ ret = NoRet
    /\ LET out == proc_results(FunctionConf,
                               [NoBench EXCEPT !.runs =
                                   <<[report |-> NoArtifact,
                                      end_at |-> TRUE]>>],
                               <<Artifact(arg.raw, arg.raw)>>, arg.ref)
       IN  ret' = [val |-> out.results[1][2], runs |-> <<out.results[1][1]>>]
    /\ UNCHANGED <<arg, cleanup, suite_vars>>

NextReduce == CallReduce

SpecReduce == InitReduce /\ [][NextReduce]_vars

----------------------------------------------------------------------------
(* Function-level check of gen_score: the state after a run() that         *)
(* completed every workload, with the representative scores in results.    *)

\* the representative scores run() can append: a reduced score is 0.0 when
\* a raw sub-score of the artifact is 0, and run() breaks only on res < 0
RepresentativeScores == ScoreSet \cup {0}

ScoreLists == UNION {[1..n -> RepresentativeScores] : n \in 1..MaxWl}

ScoreScalings == ScalingChoices \cup {[present |-> TRUE, num |-> 1, den |-> 1]}

InitScore ==
    /\ arg = << >>
    /\ ret = NoRet
    /\ cleanup = CleanupIdle
    /\ \E scores \in ScoreLists, sc \in ScoreScalings :
          /\ settings = [FunctionConf EXCEPT !.nwl = Len(scores), !.scaling = sc]
          /\ results = scores
          /\ res = scores[Len(scores)]
          /\ wl = Len(scores)
          /\ wl_scores = [w \in 1..Len(scores) |-> NoWlScores]
    /\ confobj = [score |-> Unset, status |-> "unset", error |-> 0,
                  score_per_core |-> Unset]
    /\ bench_conf = NoBench
    /\ fs = << >>
    /\ pc = "returned"
    /\ rep = 0
    /\ early = FALSE
    /\ reduced = << >>
    /\ final_run = << >>
    /\ final_result = Unset
    /\ trace = << >>
    /\ no_score = {}
    /\ last_call = "run"
    /\ running = {}
    /\ cmdf = NoProcess
    /\ procs = << >>
    /\ docker_rm = 0
    /\ exit_status = Unset

NextScore == gen_score

SpecScore == InitScore /\ [][NextScore]_vars

----------------------------------------------------------------------------
(* Function-level check of _cleanup_fs: the call is drawn from the         *)
(* settings, the results directories, the glob prefixes and the listings   *)
(* below.                                                                  *)

ResultsDirs ==
    {<< >>, <<"/">>, <<"/", "r">>, <<"r">>, <<"/", "r", "/", ".", ".">>}

GlobPrefixes ==
    {<< >>, <<"b">>, <<".">>, <<".", ".">>, <<"b", "/", "b">>}

ResDir(name) == [name |-> name, link |-> FALSE, dir |-> TRUE]

Run0 == <<"r", "u", "n", "0">>

Run1 == <<"r", "u", "n", "1">>

Listings ==
    {<<[name |-> Run0, link |-> FALSE, entries |-> <<ResDir(<<"b", "x">>)>>]>>,
     <<[name |-> Run0, link |-> FALSE, entries |-> <<ResDir(<<"b", "x">>)>>],
       [name |-> Run1, link |-> FALSE,
        entries |-> <<ResDir(<<"b", "y">>),
                      [name |-> <<"b", "l">>, link |-> TRUE, dir |-> TRUE]>>]>>,
     <<[name |-> Run0, link |-> TRUE, entries |-> <<ResDir(<<"b", "x">>)>>],
       [name |-> <<"t", "m", "p">>, link |-> FALSE,
        entries |-> <<ResDir(<<"b", "z">>)>>]>>}

CleanupCalls ==
    [clean_files : BOOLEAN, cec : {"docker", "singularity"}, uid : {0, 1000},
     resultsdir : ResultsDirs, benchmark : GlobPrefixes, tree : Listings]

InitCleanup ==
    /\ arg \in CleanupCalls
    /\ ret = NoRet
    /\ cleanup = CleanupIdle
    /\ Loaded(FunctionConf)

NextCleanup ==
    \/ cleanup_enter
    \/ \E tarred, removed \in BOOLEAN : cleanup_step(tarred, removed)
    \/ cleanup_return

SpecCleanup == InitCleanup /\ [][NextCleanup]_vars

----------------------------------------------------------------------------
(* parse_conf(confstr)                                                     *)
(* The configuration c is the mapping yaml.safe_load returns, described by *)
(* what parse_conf looks at: root (the key hepscore_benchmark), sections    *)
(* (the keys under it), method, repetitions, registry and scaling by the   *)
(* kind of their value, and benchmarks, a sequence in the order of the     *)
(* mapping of records [name, args, ref_scores]; py3 tells whether          *)
(* dict.keys() is a view of the dictionary (Python 3) or a list.           *)

\* a value of ref_scores by what float() and the later division make of it
RefEntryKinds == {"positive", "zero", "negative", "numeric_text", "text"}

\* float(x) raises ValueError
FloatRaises(kind) == kind = "text"

\* the number sys.exit is called with on a configuration error
ConfExit == 1

Accepted == [status |-> "accepted", code |-> 0]

ConfError == [status |-> "exit", code |-> ConfExit]

\* an exception parse_conf does not catch
ConfRaised == [status |-> "raised", code |-> 0]

\* the checks of the settings and app_info sections and of scaling
CheckSections(c) ==
    IF ~c.root THEN ConfError
    ELSE IF c.sections # {"settings", "app_info", "benchmarks"} THEN ConfError
    ELSE IF c.method = "other" THEN ConfError
    ELSE IF c.repetitions = "text" THEN ConfError
    ELSE IF c.registry = "illegal" THEN ConfError
    ELSE IF c.scaling = "text" THEN ConfError
    ELSE Accepted

\* the body of the loop over the benchmarks for one benchmark b, from the
\* name tests to the ref_scores test
CheckBenchmark(b) ==
    IF b.name = "illegal" THEN ConfError
    ELSE IF b.name = "nodash" THEN ConfError
    ELSE IF ~b.args THEN ConfError
    ELSE IF ~b.ref_scores.present THEN ConfError
    ELSE IF \E k \in 1..Len(b.ref_scores.entries) :
                FloatRaises(b.ref_scores.entries[k])
    THEN ConfError
    ELSE Accepted

\* the loop over dat['hepscore_benchmark']['benchmarks'].keys() from the
\* k-th benchmark on; popped tells that a commented entry was popped, after
\* which the next step of an iteration over a view raises RuntimeError
RECURSIVE CheckBenchmarks(_, _, _, _)
CheckBenchmarks(bs, k, py3, popped) ==
    IF popped /\ py3 THEN ConfRaised
    ELSE IF k > Len(bs) THEN Accepted
    ELSE IF bs[k].name = "commented" THEN CheckBenchmarks(bs, k + 1, py3, TRUE)
    ELSE IF CheckBenchmark(bs[k]) # Accepted THEN CheckBenchmark(bs[k])
    ELSE CheckBenchmarks(bs, k + 1, py3, popped)

parse_conf(c) ==
    IF CheckSections(c) # Accepted THEN CheckSections(c)
    ELSE IF CheckBenchmarks(c.benchmarks, 1, c.py3, FALSE) # Accepted
    THEN CheckBenchmarks(c.benchmarks, 1, c.py3, FALSE)
    ELSE IF Len(c.benchmarks) = 0 THEN ConfError
    ELSE Accepted

----------------------------------------------------------------------------
(* Function-level check of parse_conf: a valid configuration in which one  *)
(* top-level item or one benchmark varies.                                 *)

RefScoresConfs ==
    {[present |-> FALSE, entries |-> << >>]}
    \cup UNION {[present : {TRUE}, entries : [1..n -> RefEntryKinds]] :
                n \in 0..MaxSub}

BenchmarkConfs ==
    [name : {"ok", "commented", "illegal", "nodash"}, args : BOOLEAN,
     ref_scores : RefScoresConfs]

ValidBenchmark ==
    [name |-> "ok", args |-> TRUE,
     ref_scores |-> [present |-> TRUE, entries |-> <<"positive">>]]

ValidConf ==
    [root |-> TRUE, sections |-> {"settings", "app_info", "benchmarks"},
     method |-> "geometric_mean", repetitions |-> "int", registry |-> "ok",
     scaling |-> "absent", benchmarks |-> <<ValidBenchmark>>, py3 |-> TRUE]

ParseInputs ==
    {[ValidConf EXCEPT !.root = FALSE],
     [ValidConf EXCEPT !.sections = {"settings", "app_info"}],
     [ValidConf EXCEPT !.method = "other"],
     [ValidConf EXCEPT !.method = "absent"],
     [ValidConf EXCEPT !.repetitions = "text"],
     [ValidConf EXCEPT !.registry = "illegal"],
     [ValidConf EXCEPT !.scaling = "float"],
     [ValidConf EXCEPT !.scaling = "text"],
     [ValidConf EXCEPT !.benchmarks = << >>]}
    \cup {[ValidConf EXCEPT !.benchmarks = <<b>>, !.py3 = p] :
             b \in BenchmarkConfs, p \in BOOLEAN}
    \cup {[ValidConf EXCEPT !.benchmarks = <<ValidBenchmark, b>>, !.py3 = p] :
             b \in BenchmarkConfs, p \in BOOLEAN}

InitParse ==
    /\ arg \in ParseInputs
    /\ ret = NoRet
    /\ cleanup = CleanupIdle
    /\ Loaded(FunctionConf)

CallParse ==
    /\ ret = NoRet
    /\ ret' = parse_conf(arg)
    /\ UNCHANGED <<arg, cleanup, suite_vars>>

NextParse == CallParse

SpecParse == InitParse /\ [][NextParse]_vars

----------------------------------------------------------------------------
(* The duration of a run: time.time() is read before the launch            *)
(* (starttime) and after the container ended (endtime); the clock is       *)
(* modelled in ticks, TicksPerSecond to the second, and does not go back.  *)

\* latest clock reading of the function-level check, in ticks
MaxTicks == 24

\* resolution of the modelled clock
TicksPerSecond == 10

\* math.floor(t) for a clock reading of t ticks, in whole seconds
Floor(t) == t \div TicksPerSecond

\* bench_conf[runstr]['duration'] = math.floor(endtime) - math.floor(starttime)
Duration(starttime, endtime) == Floor(endtime) - Floor(starttime)

ClockReadings ==
    {r \in [starttime : 0..MaxTicks, endtime : 0..MaxTicks] :
        r.starttime <= r.endtime}

InitDuration ==
    /\ arg \in ClockReadings
    /\ ret = NoRet
    /\ cleanup = CleanupIdle
    /\ Loaded(FunctionConf)

CallDuration ==
    /\ ret = NoRet
    /\ ret' = [val |-> Duration(arg.starttime, arg.endtime), runs |-> <<0>>]
    /\ UNCHANGED <<arg, cleanup, suite_vars>>

NextDuration == CallDuration

SpecDuration == InitDuration /\ [][NextDuration]_vars

----------------------------------------------------------------------------
(* Function-level check of the stored reports and the run metadata:        *)
(* _proc_results on a workload whose repetitions wrote the summaries arg,  *)
(* run i the summary arg[i + 1], with allow_fail set at both levels.       *)

\* the metadata keys a summary can hold
MetaChoices ==
    {AllMeta, {}, {"app"}, {"copies", "threads_per_copy", "events_per_thread"}}

\* the summaries of the check: parsable sub-scores, the metadata varies
MetaArtifacts ==
    {ArtifactWith(<<2, 5>>, <<2 * One, 6 * One>>, m, a) :
         m \in MetaChoices, a \in {1, 2}}
    \cup {BadArtifact}

ReportInputs == UNION {[1..n -> MetaArtifacts] : n \in 1..MaxReps}

InitReport ==
    /\ arg \in ReportInputs
    /\ ret = NoRet
    /\ cleanup = CleanupIdle
    /\ Loaded(FunctionConf)

CallReport ==
    /\ ret = NoRet
    /\ LET out == proc_results(
                      [FunctionConf EXCEPT !.repetitions = Len(arg),
                                           !.allow_fail = "true",
                                           !.top_allow_fail = TRUE],
                      [NoBench EXCEPT !.runs =
                          [i \in 1..Len(arg) |->
                              [report |-> NoArtifact, end_at |-> TRUE]]],
                      arg, SuiteRef)
       IN  ret' = [val |-> out.ret, runs |-> out.final_run,
                   bench |-> out.bench]
    /\ UNCHANGED <<arg, cleanup, suite_vars>>

NextReport == CallReport

SpecReport == InitReport /\ [][NextReport]_vars

----------------------------------------------------------------------------
(* The log snapshots of _run_benchmark: arg[i + 1] is the number of output *)
(* lines the container of repetition i emits, <<i, n>> its n-th line.  ret *)
(* holds the loop index i, the list output_logs and the snapshot files     *)
(* written so far, each with the lines it holds.                           *)

\* most output lines of one container in the function-level check
MaxLines == 3

\* the '' that output_logs is initialised with; written to a file it adds
\* nothing
EmptyLine == << >>

\* the lines repetition i emits, in emission order
Emitted(i, n) == [k \in 1..n |-> <<i, k>>]

\* output_logs.insert(0, line) for every line read from cmdf.stdout
RECURSIVE InsertLines(_, _)
InsertLines(logs, lines) ==
    IF lines = << >> THEN logs
    ELSE InsertLines(<<Head(lines)>> \o logs, Tail(lines))

\* reversed(output_logs)
RECURSIVE Reversed(_)
Reversed(logs) ==
    IF logs = << >> THEN << >> ELSE Append(Reversed(Tail(logs)), Head(logs))

\* the content of logsFile: f.write('%s' % line) for line in
\* reversed(output_logs)
Snapshot(logs) == SelectSeq(Reversed(logs), LAMBDA line : line # EmptyLine)

\* output_logs = [''] before the for loop
InitLogs ==
    /\ arg \in UNION {[1..n -> 0..MaxLines] : n \in 1..MaxReps}
    /\ ret = [i |-> 0, output_logs |-> <<EmptyLine>>, snapshots |-> << >>]
    /\ cleanup = CleanupIdle
    /\ Loaded(FunctionConf)

\* one iteration with a spawned container: the output is read line by line,
\* then the snapshot is written (written) or writing raises, which is only
\* logged
capture_logs(written) ==
    /\ ret.i < Len(arg)
    /\ LET logs == InsertLines(ret.output_logs, Emitted(ret.i, arg[ret.i + 1]))
       IN  ret' = [i |-> ret.i + 1,
                   output_logs |-> logs,
                   snapshots |-> Append(ret.snapshots,
                                        [written |-> written,
                                         lines |-> IF written THEN Snapshot(logs)
                                                   ELSE << >>])]
    /\ UNCHANGED <<arg, cleanup, suite_vars>>

NextLogs == \E written \in BOOLEAN : capture_logs(written)

SpecLogs == InitLogs /\ [][NextLogs]_vars

----------------------------------------------------------------------------
(* Properties of median_tuple *)

ScoreOf(items, i) == (CHOOSE k \in 1..Len(items) : items[k][1] = i)

NumLess(items, x) == Cardinality({k \in 1..Len(items) : items[k][2] < x})

NumLessEq(items, x) == Cardinality({k \in 1..Len(items) : items[k][2] <= x})

\* the k-th smallest score (k = 1 is the minimum), defined by counting
KthSmallest(items, k) ==
    CHOOSE x \in {items[j][2] : j \in 1..Len(items)} :
        NumLess(items, x) < k /\ NumLessEq(items, x) >= k

StdMedian(items) ==
    LET n == Len(items)
        m == n \div 2
    IN  IF n % 2 = 1 THEN KthSmallest(items, m + 1)
        ELSE (KthSmallest(items, m) + KthSmallest(items, m + 1)) \div 2

\* C1: median_tuple returns one run index for an odd number of entries and
\* exactly two for an even number, and the returned value is the standard
\* median of the scores (middle element, or mean of the two middle elements).
C1_MedianArityAndValue ==
    ret # NoRet =>
        /\ Len(ret.runs) = (IF Len(arg) % 2 = 1 THEN 1 ELSE 2)
        /\ ret.val = StdMedian(arg)

C1_Witness ==
    /\ ret # NoRet
    /\ Len(arg) = 4
    /\ Len(ret.runs) = 2
    /\ ret.val \notin {arg[k][2] : k \in 1..Len(arg)}

\* the entry with run index i can stand at 0-based position p of an
\* ascending order of the scores
CanBeAt(items, i, p) ==
    LET x == items[ScoreOf(items, i)][2]
    IN  NumLess(items, x) <= p /\ p < NumLessEq(items, x)

\* C2: the returned run indices are the entries at sorted position
\* m = n div 2 (odd n) or at positions m-1 and m, in that order (even n),
\* and the returned value is the score of the returned index, or the mean
\* of the scores of the two returned indices.
C2_MedianIndicesCarryValue ==
    ret # NoRet =>
        LET n == Len(arg)
            m == n \div 2
            score(i) == arg[ScoreOf(arg, i)][2]
        IN  /\ \A k \in 1..Len(ret.runs) :
                   \E j \in 1..n : arg[j][1] = ret.runs[k]
            /\ IF n % 2 = 1
               THEN /\ CanBeAt(arg, ret.runs[1], m)
                    /\ ret.val = score(ret.runs[1])
               ELSE /\ ret.runs[1] # ret.runs[2]
                    /\ CanBeAt(arg, ret.runs[1], m - 1)
                    /\ CanBeAt(arg, ret.runs[2], m)
                    /\ 2 * ret.val = score(ret.runs[1]) + score(ret.runs[2])

C2_Witness ==
    /\ ret # NoRet
    /\ Len(arg) = 3
    /\ ret.runs = <<2>>
    /\ arg[3][2] < arg[1][2]
    /\ arg[2][2] < arg[3][2]

\* 0-based position of run index i when the entries are ordered by score
\* ascending and, among equal scores, by run index ascending
RankByScoreThenIndex(items, i) ==
    LET x == items[ScoreOf(items, i)][2]
    IN  Cardinality({k \in 1..Len(items) :
            \/ items[k][2] < x
            \/ items[k][2] = x /\ items[k][1] < i})

HasDuplicateScores(items) ==
    \E j, k \in 1..Len(items) : j # k /\ items[j][2] = items[k][2]

\* C3: with duplicate scores the selection is the one given by the order
\* "score ascending, equal scores by ascending run index".
C3_TieBreakByRunIndex ==
    (ret # NoRet /\ HasDuplicateScores(arg)) =>
        LET n == Len(arg)
            m == n \div 2
        IN  IF n % 2 = 1
            THEN RankByScoreThenIndex(arg, ret.runs[1]) = m
            ELSE /\ RankByScoreThenIndex(arg, ret.runs[1]) = m - 1
                 /\ RankByScoreThenIndex(arg, ret.runs[2]) = m

C3_Witness ==
    /\ ret # NoRet
    /\ Len(arg) = 4
    /\ \A k \in 1..4 : arg[k][2] = One
    /\ ret.runs = <<1, 2>>

----------------------------------------------------------------------------
(* Properties of run(), _run_benchmark() and _proc_results() *)

RunReturned == pc = "returned" /\ last_call = "run"

\* C4: with allow_fail false, once a repetition of a workload has not yielded
\* a parsable score no repetition of a later workload is ever executed, and
\* when run() returns confobj['error'] names that workload, confobj['score']
\* is -1 and confobj['status'] is 'failed'.
C4_FailFastWithoutAllowFail ==
    settings.allow_fail = "false" =>
        \A w \in no_score :
            /\ \A k \in 1..Len(trace) : trace[k][1] <= w
            /\ RunReturned =>
                  /\ res < 0
                  /\ confobj.error = w
                  /\ confobj.score = Invalid
                  /\ confobj.status = "failed"

C4_Witness ==
    /\ RunReturned
    /\ settings.allow_fail = "false"
    /\ settings.nwl = 2
    /\ trace = <<<<1, 0>>, <<1, 1>>>>
    /\ ~ParseRaises(fs[1], SuiteRef)
    /\ fs[2] = BadArtifact
    /\ no_score = {1}
    /\ confobj.error = 1

\* C5 (as claimed): with allow_fail true, run() goes on with the following
\* workloads after a workload has failed, so every configured workload has
\* been run by the time run() returns.
C5_ContinuesPastFailedWorkload ==
    (RunReturned /\ settings.allow_fail = "true") =>
        \A w \in 1..settings.nwl : \E k \in 1..Len(trace) : trace[k][1] = w

\* C7 (as claimed): in every state reached by calls of run() and gen_score(),
\* the score is a valid number with status 'success' only if every
\* configured workload produced a representative score.
C7_NoScoreFromPartOfTheWorkloads ==
    (confobj.status = "success" \/ confobj.score >= 0) =>
        Len(results) = settings.nwl

\* the report stored under bench_conf['run' + str(i)]
ReportOf(i) == bench_conf.runs[i + 1].report

\* C8: after _proc_results selected the median of an even number of scored
\* runs, the value it returns is the mean of the two middle reduced scores
\* and wl-scores[sub] is the mean of the two selected runs' wl-scores[sub];
\* for an odd number wl-scores[sub] is that of the single selected run; in
\* both cases wl-scores[sub + '_ref'] is the reference score.
C8_WlScoresOfSelectedRuns ==
    final_run # << >> =>
        LET n == Len(reduced)
            m == n \div 2
            w == wl_scores[wl]
        IN  /\ w.set
            /\ w.ref = SuiteRef
            /\ Len(w.score) = Len(SuiteRef)
            /\ IF n % 2 = 0
               THEN /\ Len(final_run) = 2
                    /\ CanBeAt(reduced, final_run[1], m - 1)
                    /\ CanBeAt(reduced, final_run[2], m)
                    /\ 2 * final_result =
                          reduced[ScoreOf(reduced, final_run[1])][2]
                          + reduced[ScoreOf(reduced, final_run[2])][2]
                    /\ \A k \in 1..Len(SuiteRef) :
                          2 * w.score[k] = ReportOf(final_run[1]).wl[k]
                                           + ReportOf(final_run[2]).wl[k]
               ELSE /\ Len(final_run) = 1
                    /\ \A k \in 1..Len(SuiteRef) :
                          w.score[k] = ReportOf(final_run[1]).wl[k]

C8_Witness ==
    /\ final_run = <<0, 1>>
    /\ reduced = <<<<0, One>>, <<1, 3 * One>>>>
    /\ final_result = 2 * One
    /\ wl_scores[wl].score = <<3 * One, 8 * One>>
    /\ wl_scores[wl].ref = SuiteRef

----------------------------------------------------------------------------
(* Properties of the reduced score and of gen_score() *)

\* the even number q of units is the quotient num / den rounded to 4 decimals
IsRoundedQuotient(q, num, den) ==
    /\ q % 2 = 0
    /\ (q - 1) * den <= num * One
    /\ num * One < (q + 1) * den

\* the even number s of units is root * num / den rounded to 4 decimals,
\* root being the geometric mean of xs
IsRoundedGMean(s, xs, num, den) ==
    LET n == Len(xs)
        p == BigMul(BigProduct(xs), BigPow(BigOfInt(num), n))
    IN  /\ s % 2 = 0
        /\ s >= 0
        /\ s > 0 => ~BigLess(p, BigPow(BigOfInt((s - 1) * den), n))
        /\ BigLess(p, BigPow(BigOfInt((s + 1) * den), n))

\* C9: the reduced score of a run is the geometric mean, rounded to 4
\* decimals, of the quotients raw[sub] / ref_scores[sub], each rounded to 4
\* decimals, over all sub-benchmarks of ref_scores; an artifact whose
\* sub-scores equal the reference scores has the reduced score 1.0000.
C9_ReducedScore ==
    ret # NoRet =>
        LET n == Len(arg.ref)
            q == [k \in 1..n |-> SubScore(arg.raw[k], arg.ref[k])]
        IN  /\ \A k \in 1..n : IsRoundedQuotient(q[k], arg.raw[k], arg.ref[k])
            /\ IsRoundedGMean(ret.val, q, 1, 1)
            /\ arg.raw = arg.ref => ret.val = One

C9_Witness ==
    /\ ret # NoRet
    /\ arg.raw = <<2, 3>>
    /\ arg.ref = <<2, 3>>
    /\ ret.val = One

\* C6: gen_score sets the suite score to the geometric mean of the
\* representative scores in results, times settings.scaling when present
\* (no factor otherwise), rounded to 4 decimals; [1.0, 4.0] with scaling 1.0
\* gives 2.0000.
C6_SuiteScoreIsScaledGMean ==
    (last_call = "gen_score" /\ results # << >>) =>
        /\ confobj.status = "success"
        /\ IsRoundedGMean(confobj.score, results,
                          IF settings.scaling.present THEN settings.scaling.num ELSE 1,
                          IF settings.scaling.present THEN settings.scaling.den ELSE 1)

C6_Witness ==
    /\ last_call = "gen_score"
    /\ results = <<One, 4 * One>>
    /\ settings.scaling = [present |-> TRUE, num |-> 1, den |-> 1]
    /\ confobj.score = 2 * One
    /\ confobj.status = "success"

----------------------------------------------------------------------------
(* Properties of _cleanup_fs() *)

\* the working path names the root directory: nothing is left of it once
\* '', '.' and '..' are resolved (any number of leading slashes is the root)
ResolvesToRoot(path) ==
    LET abs == IF StartsWith(path, <<"/">>) THEN path ELSE Cwd \o <<"/">> \o path
    IN  NormComps(SplitSlash(abs), << >>, 1) = << >>

----------------------------------------------------------------------------
(* Properties of the failure handling of _proc_results() and               *)
(* _run_benchmark()                                                        *)

\* the latest call of _proc_results was for the current workload and returned
ProcReturned == procs # << >> /\ procs[Len(procs)][1] = wl

\* C11 (as claimed): when _proc_results parsed fewer runs than the configured
\* repetitions, it returns -1 if settings.allow_fail is false or absent, and
\* with settings.allow_fail true and at least one parsed run it returns the
\* median of the parsed runs.
C11_FewerRunsObeysAllowFail ==
    /\ (pc = "raised" /\ Len(reduced) < settings.repetitions) =>
          settings.allow_fail = "true"
    /\ (ProcReturned /\ Len(reduced) < settings.repetitions) =>
          /\ settings.allow_fail \in {"false", "absent"} =>
                final_result = Invalid
          /\ (settings.allow_fail = "true" /\ Len(reduced) >= 1) =>
                final_result = median_tuple(reduced).val

\* C12 (as claimed): the report and the reduced score stored under run index
\* i are those of the summary artifact that repetition i wrote in its own
\* run directory, also when some repetition wrote no artifact.
C12_RunIndexNamesItsOwnArtifact ==
    /\ \A i \in 0..(Len(bench_conf.runs) - 1) :
          ReportOf(i) # NoArtifact =>
              i < Len(fs) /\ ReportOf(i) = DelRunMetadata(fs[i + 1])
    /\ \A k \in 1..Len(reduced) :
          LET i == reduced[k][1]
          IN  /\ i < Len(fs)
              /\ ~ParseRaises(fs[i + 1], SuiteRef)
              /\ reduced[k][2] = ReducedScore(fs[i + 1].raw, SuiteRef)

\* C13: the container launches form one sequence, workloads in declaration
\* order and repetitions in ascending index order; at most one container
\* runs at a time, and it is the one of the current iteration;
\* _proc_results runs only when no container of the workload is running, and
\* each of its calls lies after every repetition of its workload and before
\* every repetition of a later workload.
C13_LaunchesAndReductionInSequence ==
    /\ Cardinality(running) <= 1
    /\ running # {} => (pc = "wait" /\ running = {<<wl, rep>>})
    /\ pc = "proc" => running = {}
    /\ trace # << >> => trace[1] = <<1, 0>>
    /\ \A k \in 1..(Len(trace) - 1) :
          \/ trace[k + 1] = <<trace[k][1], trace[k][2] + 1>>
          \/ trace[k + 1] = <<trace[k][1] + 1, 0>>
    /\ \A n \in 1..Len(procs) :
          /\ procs[n][2] >= 1
          /\ \A k \in 1..Len(trace) :
                IF k <= procs[n][2] THEN trace[k][1] <= procs[n][1]
                ELSE trace[k][1] > procs[n][1]
          /\ trace[procs[n][2]][1] = procs[n][1]
    /\ \A k \in 1..Len(trace) :
          trace[k][1] < trace[Len(trace)][1] =>
              \E n \in 1..Len(procs) : procs[n][1] = trace[k][1]

C13_Witness ==
    /\ trace = <<<<1, 0>>, <<1, 1>>, <<2, 0>>, <<2, 1>>>>
    /\ procs = <<<<1, 2>>, <<2, 4>>>>
    /\ running = {}
    /\ cmdf.exited

\* the container of the latest iteration ended with a nonzero exit status
RunFailed == cmdf.exited /\ cmdf.returncode # 0

\* C14: after a repetition ended with a nonzero exit status (137 included):
\* with allow_fail false no further repetition of the workload is launched
\* and the workload returns -1; with allow_fail true the run is recorded and
\* the loop proceeds to the next repetition index.
C14_FailingRunObeysAllowFail ==
    RunFailed =>
        /\ settings.allow_fail = "false" =>
              /\ early
              /\ pc \in {"proc", "done", "returned", "exited"}
              /\ trace[Len(trace)] = <<wl, rep>>
              /\ pc # "proc" => res = Invalid
        /\ settings.allow_fail = "true" =>
              /\ ~early
              /\ rep = trace[Len(trace)][2] + 1
              /\ bench_conf.runs[rep].end_at
              /\ rep < settings.repetitions => pc = "rep"

C14_Witness ==
    /\ settings.allow_fail = "true"
    /\ cmdf.exited
    /\ cmdf.returncode = OomKilled
    /\ pc = "rep"
    /\ rep = 1
    /\ trace = <<<<1, 0>>>>

\* subprocess.Popen raised in the latest iteration and _run_benchmark is on
\* its way to return(-1)
LaunchFailed == early /\ ~cmdf.spawned

\* C15 (as claimed): a launch failure obeys allow_fail; with allow_fail true
\* it does not end the workload: the loop proceeds to the next repetition
\* index, so the loop is left only after the last index and the workload
\* returns what _proc_results returns.
C15_LaunchFailureObeysAllowFail ==
    (settings.allow_fail = "true" /\ LaunchFailed) =>
        /\ rep = settings.repetitions - 1
        /\ (ProcReturned /\ pc # "proc") => res = final_result

\* C16 (as claimed): by the time _run_benchmark returns, _docker_rm has been
\* invoked exactly once for the workload, also when the loop stopped early
\* on a failing run or a launch failure.
C16_ImageCleanupOncePerWorkload ==
    ProcReturned => docker_rm = 1

\* C17 (as claimed): parse errors are per run; the k-th artifact that
\* _proc_results read has a reduced score recorded exactly when that
\* artifact itself parsed, whatever happened to the artifacts before it.
C17_ParseErrorsArePerRun ==
    (ProcReturned \/ pc = "raised") =>
        LET gpaths == GlobPaths(fs, {i \in 0..(Len(fs) - 1) : fs[i + 1].present})
        IN  \A k \in 1..Len(gpaths) :
                (\E n \in 1..Len(reduced) : reduced[n][1] = k - 1)
                <=> ~ParseRaises(fs[gpaths[k] + 1], SuiteRef)

----------------------------------------------------------------------------
(* Properties of the suite status, write_output() and parse_conf()         *)

\* C18 (as claimed): if a representative score in results is zero or
\* negative, gen_score sets the score to -1 and the status to 'failed', so
\* a suite with status 'success' has a strictly positive score.
C18_NonPositiveScoreFailsSuite ==
    last_call = "gen_score" =>
        /\ (\E k \in 1..Len(results) : results[k] <= 0) =>
              (confobj.score = Invalid /\ confobj.status = "failed")
        /\ confobj.status = "success" => confobj.score > 0

\* C19 (as claimed): write_output ends the process with a nonzero status
\* whenever a workload failed or the suite status is 'failed', also when
\* earlier workloads succeeded before a later one failed; so it never
\* returns normally in such a state.
C19_WriteOutputExitsOnFailure ==
    last_call = "write_output" =>
        /\ confobj.status # "failed"
        /\ res >= 0

\* the ref_scores of a benchmark is a mapping with at least one entry, each
\* a positive number
GoodRefScores(b) ==
    /\ b.ref_scores.present
    /\ Len(b.ref_scores.entries) >= 1
    /\ \A k \in 1..Len(b.ref_scores.entries) :
          b.ref_scores.entries[k] = "positive"

\* C20 (as claimed): parse_conf accepts a configuration only if every
\* benchmark that is not a commented entry has a ref_scores mapping with at
\* least one entry, each a positive number; a missing, empty, non-numeric
\* or non-positive ref_scores is never accepted.
C20_AcceptsOnlyPositiveRefScores ==
    (ret # NoRet /\ ret.status = "accepted") =>
        \A k \in 1..Len(arg.benchmarks) :
            arg.benchmarks[k].name # "commented" =>
                GoodRefScores(arg.benchmarks[k])

----------------------------------------------------------------------------
(* Properties of the archival loop, the run records and HEPscore.results   *)

\* C21 (as claimed): a failure while archiving one result directory does
\* not stop the archival of the remaining matching directories; when
\* _cleanup_fs is over, at most the directory that failed is left untouched.
C21_ArchivalFailureIsPerDirectory ==
    cleanup.pc \in {"returned", "raised"} => Len(cleanup.todo) <= 1

\* C22 (as claimed): the duration recorded for a run is the elapsed time,
\* end minus start, with its fractional part truncated: a non-negative
\* whole number of seconds that never exceeds the elapsed time.
C22_DurationIsTruncatedElapsedTime ==
    ret # NoRet =>
        /\ ret.val >= 0
        /\ ret.val * TicksPerSecond <= arg.endtime - arg.starttime
        /\ ret.val = (arg.endtime - arg.starttime) \div TicksPerSecond

\* C23 (as claimed): after a workload's results are processed, no stored
\* per-run report holds the keys app, copies, threads_per_copy or
\* events_per_thread (also for runs whose parsing failed), and the
\* workload's app and run_info are those of the first run's artifact.
C23_ReportsStrippedOfRunMetadata ==
    ret # NoRet =>
        /\ \A i \in 1..Len(ret.bench.runs) :
              ret.bench.runs[i].report.meta = {}
        /\ ret.bench.app # 0 =>
              /\ ret.bench.app = arg[1].app
              /\ ret.bench.run_info = AllMeta \ {"app"}

\* C24 (as claimed): the log snapshot written after repetition i holds
\* exactly the lines repetition i emitted, in emission order, and no line
\* of an earlier repetition.
C24_SnapshotHoldsOwnLinesOnly ==
    \A k \in 1..Len(ret.snapshots) :
        ret.snapshots[k].written =>
            ret.snapshots[k].lines = Emitted(k - 1, arg[k])

\* C25 (as claimed): the list gen_score composes holds one representative
\* score per workload completed in the current suite run and nothing else,
\* so when gen_score has composed it, it holds no more scores than calls of
\* _proc_results have returned in the current run, nor more than the suite
\* has workloads.
C25_ResultsOfCurrentRunOnly ==
    last_call = "gen_score" =>
        /\ Len(results) <= Len(procs)
        /\ Len(results) <= settings.nwl

====
